---- MODULE Spec2Model ----
(***************************************************************************)
(* A model of dumpfiles (src/src/dumpfiles/cli.py): argument parsing,      *)
(* file selection (os.walk with pruning, fnmatch, the NUL heuristic) and   *)
(* streaming to one of two sinks (an output file or a clipboard helper).   *)
(*                                                                         *)
(* Text is modelled as sequences of one-character strings; a byte string   *)
(* is a sequence over the same alphabet with NUL standing for byte 0 and   *)
(* LF for byte 10.  A path is the sequence of its component names.         *)
(***************************************************************************)
EXTENDS Integers, Sequences, FiniteSets, TLC

VARIABLES
    argv,       \* the argument list handed to _run
    fault,      \* the one I/O fault of the environment (or none)
    pc,         \* position of the run in _run and its callees; at the end
                \* "returned" (_run returned), "sysexit" (SystemExit was
                \* raised) or "crashed" (another exception left _run)
    target,     \* parse_args: root_or_file
    pattern,    \* parse_args: pattern
    single,     \* parse_args: single_file_mode
    output,     \* parse_args: output_file, <<>> for None, <<path>> otherwise
    stack,      \* os.walk: directories still to visit, next first
    listed,     \* directories whose entries os.walk has listed
    files,      \* _run: files, the Selected File Set
    disk,       \* regular files of the filesystem: path -> bytes on disk
    wbuf,       \* bytes pending in the output file's buffered writer
    created,    \* output.open("wb") has created or truncated the output file
    outOpen,    \* the output file handle is open
    srcOpen,    \* a source file handle is open
    idx,        \* index in files of the file being streamed
    rpos,       \* read position in the file being streamed
    total,      \* total_lines
    tried,      \* open_clipboard_proc: commands tried so far, in order
    proc,       \* index of the spawned helper command, 0 when none
    pipe,       \* bytes written to the helper's stdin
    stdinOpen,  \* the helper's stdin is open
    waited,     \* proc.wait() has returned
    exitCode,   \* exit status of the process, -1 while running
    stderr,     \* message printed on the diagnostic stream, "" when none
    stdout,     \* text printed on the primary output stream, "" when none
    summary     \* <<file count, line count>> of the summary line, <<>> when none

vars == <<argv, fault, pc, target, pattern, single, output, stack, listed, files,
          disk, wbuf, created, outOpen, srcOpen, idx, rpos, total, tried, proc, pipe,
          stdinOpen, waited, exitCode, stderr, stdout, summary>>

----------------------------------------------------------------------------
(* Bounds of the model *)

\* longest argument list tried
MaxArgs == 3

\* capacity of the storage holding the output file, in bytes
MaxDisk == 150

----------------------------------------------------------------------------
(* Sizes, scaled down together: SniffLen < BufSize < ChunkSize as in       *)
(* 4096 < 8192 < 65536, and every header fits in the writer's buffer.      *)

\* is_binary: f.read(4096)
SniffLen == 4

\* f.read(1 << 16)
ChunkSize == 32

\* the buffer of the writer returned by output.open("wb")
BufSize == 24

----------------------------------------------------------------------------
(* Text *)

NUL == "NUL"
LF == "LF"

Min(a, b) == IF a < b THEN a ELSE b

Rep(ch, n) == [i \in 1..n |-> ch]

Last(s) == s[Len(s)]

\* s[:n]
Take(s, n) == IF Len(s) <= n THEN s ELSE SubSeq(s, 1, n)

\* bytes.count(b"\n")
RECURSIVE CountLF(_)
CountLF(bytes) ==
    IF bytes = <<>> THEN 0
    ELSE (IF Head(bytes) = LF THEN 1 ELSE 0) + CountLF(Tail(bytes))

Contains(bytes, b) == \E i \in 1..Len(bytes) : bytes[i] = b

\* names of the filesystem and words of the command line
N_p == <<"p">>
N_a == <<"a", ".", "p", "y">>
N_b == <<"b">>
N_o == <<"o">>
N_c == <<"c">>
N_git == <<".", "g", "i", "t">>
N_pycache == <<"_", "_", "p", "y", "c", "a", "c", "h", "e", "_", "_">>
N_venv == <<".", "v", "e", "n", "v">>

A_o == <<"-", "o">>
A_output == <<"-", "-", "o", "u", "t", "p", "u", "t">>
A_h == <<"-", "h">>
A_help == <<"-", "-", "h", "e", "l", "p">>
A_helpword == <<"h", "e", "l", "p">>
A_p == <<"p">>
A_a == <<"p", "/", "a", ".", "p", "y">>
A_b == <<"p", "/", "b">>
A_out == <<"p", "/", "o">>
A_git == <<"p", "/", ".", "g", "i", "t">>
A_star == <<"*">>
A_py == <<"*", ".", "p", "y">>
A_n == <<"n">>

EXCLUDE_DIRS == {N_git, N_pycache, N_venv}

OutputFlags == {A_output, A_o}

\* a parse_args that knows no help token
HelpTokens_None == {}

\* parse_args line 75
HelpTokens == {A_h, A_help, A_helpword}

----------------------------------------------------------------------------
(* Paths *)

\* Path(text): the components of text, split at "/", without "" and "."
RECURSIVE SplitPath(_, _)
SplitPath(text, cur) ==
    LET done == IF cur = <<>> \/ cur = <<".">> THEN <<>> ELSE <<cur>>
    IN  IF text = <<>> THEN done
        ELSE IF Head(text) = "/" THEN done \o SplitPath(Tail(text), <<>>)
        ELSE SplitPath(Tail(text), Append(cur, Head(text)))

ToPath(text) == SplitPath(text, <<>>)

\* str(path): the components joined by "/", "." for the empty path
RECURSIVE JoinPath(_)
JoinPath(path) ==
    IF Len(path) = 1 THEN path[1]
    ELSE path[1] \o <<"/">> \o JoinPath(Tail(path))

PathStr(path) == IF path = <<>> THEN <<".">> ELSE JoinPath(path)

\* str.encode("utf-8", "replace"): a lone surrogate becomes "?"
SURROGATE == "SURROGATE"

Encode(text) == [i \in 1..Len(text) |-> IF text[i] = SURROGATE THEN "?" ELSE text[i]]

\* f"\n===== {p} =====\n".encode("utf-8", "replace")
Header(path) ==
    Encode(<<LF, "=", "=", "=", "=", "=", " ">> \o PathStr(path)
           \o <<" ", "=", "=", "=", "=", "=", LF>>)

IsPrefix(d, path) == Len(d) <= Len(path) /\ Take(path, Len(d)) = d

----------------------------------------------------------------------------
(* The filesystem the run starts in: the working directory is the empty    *)
(* path.  p/o holds a NUL beyond the sniffed prefix; p/b holds one in it.  *)

Dirs == {<<>>, <<N_p>>, <<N_p, N_git>>, <<N_p, N_git, N_venv>>}

P_a == <<N_p, N_a>>
P_b == <<N_p, N_b>>
P_o == <<N_p, N_o>>
P_c == <<N_p, N_git, N_c>>
P_v == <<N_p, N_git, N_venv, N_c>>

Content_a == Rep("x", 12) \o <<LF>> \o Rep("y", 12) \o <<LF>> \o Rep("z", 12) \o <<LF>>

InitDisk ==
    (P_a :> Content_a)
    @@ (P_b :> <<"x", NUL, LF>>)
    @@ (P_o :> <<"o", "l", "d", LF, "q", NUL>>)
    @@ (P_c :> <<"c", LF>>)
    @@ (P_v :> <<"v", LF>>)

NoFault == [kind |-> "none", path |-> <<>>, at |-> 0]

\* an open that is refused, a read that fails in the sniffed prefix, and a
\* read that fails beyond it
Faults ==
    {NoFault,
     [kind |-> "open", path |-> P_a, at |-> 0],
     [kind |-> "read", path |-> P_a, at |-> 0],
     [kind |-> "read", path |-> P_a, at |-> SniffLen + 1]}

Words == {A_o, A_output, A_h, A_p, A_a, A_b, A_out, A_git, A_star, A_py, A_n}

ArgLists == UNION {[1..n -> Words] : n \in 0..MaxArgs}

is_file(path) == path \in DOMAIN disk

is_dir(path) == path \in Dirs

\* p.open("rb") succeeds
CanOpen(path) ==
    /\ path \in DOMAIN disk
    /\ ~(fault.kind = "open" /\ fault.path = path)

\* f.read(n) at position pos raises
ReadFails(path, pos, n) ==
    /\ fault.kind = "read"
    /\ fault.path = path
    /\ pos <= fault.at
    /\ fault.at < Min(pos + n, Len(disk[path]))

\* f.read(n) at position pos: what is on disk now, at most n bytes of it
ReadChunk(path, pos, n) ==
    IF pos >= Len(disk[path]) THEN <<>>
    ELSE SubSeq(disk[path], pos + 1, Min(pos + n, Len(disk[path])))

\* an is_binary that sniffs the first byte only
is_binary_FirstByte(path) ==
    IF ~CanOpen(path) THEN TRUE
    ELSE IF ReadFails(path, 0, 1) THEN TRUE
    ELSE Contains(ReadChunk(path, 0, 1), NUL)

is_binary(path) ==
    IF ~CanOpen(path) THEN TRUE
    ELSE IF ReadFails(path, 0, SniffLen) THEN TRUE
    ELSE Contains(ReadChunk(path, 0, SniffLen), NUL)

\* fnmatch.fnmatch(name, pat) for patterns of literals, "*" and "?"
RECURSIVE fnmatch(_, _)
fnmatch(name, pat) ==
    IF pat = <<>> THEN name = <<>>
    ELSE IF Head(pat) = "*"
         THEN fnmatch(name, Tail(pat)) \/ (name # <<>> /\ fnmatch(Tail(name), pat))
    ELSE IF Head(pat) = "?"
         THEN name # <<>> /\ fnmatch(Tail(name), Tail(pat))
    ELSE name # <<>> /\ Head(name) = Head(pat) /\ fnmatch(Tail(name), Tail(pat))

----------------------------------------------------------------------------
(* parse_args *)

\* the loop over argv that takes out --output/-o and its value
RECURSIVE ScanOutput(_, _, _, _)
ScanOutput(args, i, cleaned, out) ==
    IF i > Len(args) THEN [missing |-> FALSE, cleaned |-> cleaned, out |-> out]
    ELSE IF args[i] \in OutputFlags
         THEN IF i + 1 > Len(args)
              THEN [missing |-> TRUE, cleaned |-> cleaned, out |-> out]
              ELSE ScanOutput(args, i + 2, cleaned, <<ToPath(args[i + 1])>>)
    ELSE ScanOutput(args, i + 1, Append(cleaned, args[i]), out)

Exit(code, err, out) ==
    [exit |-> code, stderr |-> err, stdout |-> out, target |-> <<>>,
     pattern |-> <<>>, single |-> FALSE, output |-> <<>>]

Parsed(t, pat, sfm, out) ==
    [exit |-> -1, stderr |-> "", stdout |-> "", target |-> t,
     pattern |-> pat, single |-> sfm, output |-> out]

parse_args(args) ==
    LET scan == ScanOutput(args, 1, <<>>, <<>>)
        rest == scan.cleaned
        first == ToPath(rest[1])
    IN  IF scan.missing
        THEN Exit(2, "Error: --output requires a file path.", "")
        ELSE IF rest = <<>> \/ rest[1] \in HelpTokens
        THEN Exit(0, "", "USAGE")
        ELSE IF is_file(first)
        THEN Parsed(first, <<>>, TRUE, scan.out)
        ELSE IF is_dir(first)
        THEN Parsed(first, IF Len(rest) >= 2 THEN rest[2] ELSE A_star, FALSE, scan.out)
        ELSE IF Len(rest) >= 2
        THEN Exit(2, "Error: when the first argument is a pattern, do not pass a second argument.", "")
        ELSE Parsed(<<>>, rest[1], FALSE, scan.out)

----------------------------------------------------------------------------
(* Selection *)

\* the ways a directory listing can order a set of names
Orderings(S) ==
    {o \in [1..Cardinality(S) -> S] : \A i, j \in 1..Cardinality(S) : o[i] = o[j] => i = j}

\* os.walk's filenames and dirnames of directory d
FileNames(d) == {Last(f) : f \in {g \in DOMAIN disk : Len(g) = Len(d) + 1 /\ IsPrefix(d, g)}}

DirNames(d) == {Last(f) : f \in {g \in Dirs : Len(g) = Len(d) + 1 /\ IsPrefix(d, g)}}

\* a walk_files that prunes nothing
Prune_KeepAll(dirnames) == dirnames

\* dirnames[:] = [d for d in dirnames if d not in EXCLUDE_DIRS]
Prune(dirnames) == SelectSeq(dirnames, LAMBDA d : d \notin EXCLUDE_DIRS)

\* fnmatch.fnmatch(p.name, pattern) and not is_binary(p)
Selects(path, pat) == fnmatch(Last(path), pat) /\ ~is_binary(path)

\* Path(dirpath) / name for each name, in order
Under(d, names) == [i \in 1..Len(names) |-> Append(d, names[i])]

\* open_clipboard_proc: commands
Commands == <<"pbcopy", "xclip", "xsel", "wl-copy">>

\* what subprocess.Popen(cmd) can do: start the helper, raise
\* FileNotFoundError, or raise another OSError (PermissionError)
PopenOutcomes == {"started", "FileNotFoundError", "PermissionError"}

----------------------------------------------------------------------------
(* The buffered writer of the output file *)

\* out.write(data): what reaches the disk now and what stays buffered
BufWrite(buf, data) ==
    IF Len(data) <= BufSize - Len(buf)
    THEN [flushed |-> <<>>, buf |-> buf \o data]
    ELSE IF Len(data) > BufSize
    THEN [flushed |-> buf \o data, buf |-> <<>>]
    ELSE [flushed |-> buf, buf |-> data]

\* closing the writer flushes it
BufClose(buf) == [flushed |-> buf, buf |-> <<>>]

OutPath == output[1]

\* the raw write of w.flushed fits on the storage
Fits(w) == Len(disk[OutPath]) + Len(w.flushed) <= MaxDisk

Flushed(w) == [disk EXCEPT ![OutPath] = Take(@ \o w.flushed, MaxDisk)]

----------------------------------------------------------------------------
(* The run *)

Init ==
    /\ argv \in ArgLists
    /\ fault \in Faults
    /\ pc = "start"
    /\ target = <<>>
    /\ pattern = <<>>
    /\ single = FALSE
    /\ output = <<>>
    /\ stack = <<>>
    /\ listed = {}
    /\ files = <<>>
    /\ disk = InitDisk
    /\ wbuf = <<>>
    /\ created = FALSE
    /\ outOpen = FALSE
    /\ srcOpen = FALSE
    /\ idx = 0
    /\ rpos = 0
    /\ total = 0
    /\ tried = <<>>
    /\ proc = 0
    /\ pipe = <<>>
    /\ stdinOpen = FALSE
    /\ waited = FALSE
    /\ exitCode = -1
    /\ stderr = ""
    /\ stdout = ""
    /\ summary = <<>>

selection == <<argv, fault, target, pattern, single, output, stack, listed, files>>

clipboard == <<tried, proc, pipe, stdinOpen, waited>>

\* a _run that never finds the selection empty
Empty_Never(fs) == FALSE

\* _run line 183: not files
Empty(fs) == fs = <<>>

\* a _run that ignores the output path
UseFileSink_Never == FALSE

\* _run line 188: if output_file (a Path is always true, None is not)
UseFileSink == output # <<>>

\* _run line 171: parse_args returns the request or ends the process
ParseArgs ==
    /\ pc = "start"
    /\ LET r == parse_args(argv)
       IN  /\ pc' = IF r.exit >= 0 THEN "sysexit"
                    ELSE IF r.single THEN "single" ELSE "walk"
           /\ exitCode' = r.exit
           /\ stderr' = r.stderr
           /\ stdout' = r.stdout
           /\ target' = r.target
           /\ pattern' = r.pattern
           /\ single' = r.single
           /\ output' = r.output
           /\ stack' = IF r.exit < 0 /\ ~r.single THEN <<r.target>> ELSE <<>>
    /\ UNCHANGED <<argv, fault, listed, files, disk, wbuf, created, outOpen, srcOpen, idx,
                   rpos, total, tried, proc, pipe, stdinOpen, waited, summary>>

\* _run lines 175-177
SelectSingle ==
    /\ pc = "single"
    /\ files' = IF ~is_binary(target) THEN <<target>> ELSE <<>>
    /\ pc' = "selected"
    /\ UNCHANGED <<argv, fault, target, pattern, single, output, stack, listed, disk,
                   wbuf, created, outOpen, srcOpen, idx, rpos, total, tried, proc, pipe,
                   stdinOpen, waited, exitCode, stderr, stdout, summary>>

\* one round of os.walk under walk_files and the filter of _run: the next
\* directory is listed, its subdirectories pruned, its files filtered
WalkDir ==
    /\ pc = "walk"
    /\ stack # <<>>
    /\ LET d == Head(stack)
       IN  \E fo \in Orderings(FileNames(d)), do \in Orderings(DirNames(d)) :
              /\ listed' = listed \cup {d}
              /\ files' = files \o SelectSeq(Under(d, fo), LAMBDA f : Selects(f, pattern))
              /\ stack' = Under(d, Prune(do)) \o Tail(stack)
              /\ pc' = IF stack' = <<>> THEN "selected" ELSE "walk"
    /\ UNCHANGED <<argv, fault, target, pattern, single, output, disk, wbuf, created, outOpen,
                   srcOpen, idx, rpos, total, tried, proc, pipe, stdinOpen, waited,
                   exitCode, stderr, stdout, summary>>

\* _run lines 183-185
NoFiles ==
    /\ pc = "selected"
    /\ Empty(files)
    /\ stderr' = "No matching files."
    /\ exitCode' = 1
    /\ pc' = "returned"
    /\ UNCHANGED <<argv, fault, target, pattern, single, output, stack, listed, files,
                   disk, wbuf, created, outOpen, srcOpen, idx, rpos, total, tried, proc, pipe,
                   stdinOpen, waited, stdout, summary>>

\* an exception leaves _run: the handles that with-blocks hold are closed,
\* the interpreter prints the traceback and exits with status 1
Raise(exc) ==
    /\ pc' = "crashed"
    /\ exitCode' = 1
    /\ stderr' = exc
    /\ srcOpen' = FALSE
    /\ outOpen' = FALSE

----------------------------------------------------------------------------
(* write_to_file *)

\* the with-block of the output file is left by an exception: the writer is
\* closed, which flushes what fits
FileSinkRaise(exc, w) ==
    /\ Raise(exc)
    /\ disk' = Flushed([flushed |-> w.flushed \o w.buf, buf |-> <<>>])
    /\ wbuf' = <<>>
    /\ UNCHANGED <<selection, clipboard, created, idx, rpos, total, stdout, summary>>

\* line 156: output.open("wb") creates or truncates the file
OpenOutput ==
    /\ pc = "selected"
    /\ ~Empty(files)
    /\ UseFileSink
    /\ IF OutPath \in Dirs \/ Take(OutPath, Len(OutPath) - 1) \notin Dirs
       THEN /\ Raise("Traceback: OSError opening the output file")
            /\ UNCHANGED <<selection, clipboard, disk, wbuf, created, idx, rpos, total,
                           stdout, summary>>
       ELSE /\ disk' = (OutPath :> <<>>) @@ disk
            /\ created' = TRUE
            /\ outOpen' = TRUE
            /\ idx' = 1
            /\ total' = 0
            /\ pc' = "file_next"
            /\ UNCHANGED <<selection, clipboard, wbuf, srcOpen, rpos, exitCode,
                           stderr, stdout, summary>>

\* lines 157-161: the header of the next file is written and the file opened
FileHeader ==
    /\ pc = "file_next"
    /\ idx <= Len(files)
    /\ LET p == files[idx]
           w == BufWrite(wbuf, Header(p))
       IN  IF ~Fits(w)
           THEN FileSinkRaise("Traceback: OSError, storage exhausted", w)
           ELSE IF ~CanOpen(p)
           THEN FileSinkRaise("Traceback: OSError opening a selected file", w)
           ELSE /\ disk' = Flushed(w)
                /\ wbuf' = w.buf
                /\ srcOpen' = TRUE
                /\ rpos' = 0
                /\ pc' = "file_chunk"
                /\ UNCHANGED <<selection, clipboard, created, outOpen, idx, total,
                               exitCode, stderr, stdout, summary>>

\* lines 162-164: one f.read(1 << 16); an empty chunk ends the file
FileChunk ==
    /\ pc = "file_chunk"
    /\ LET p == files[idx]
           chunk == ReadChunk(p, rpos, ChunkSize)
           w == BufWrite(wbuf, chunk)
       IN  IF ReadFails(p, rpos, ChunkSize)
           THEN FileSinkRaise("Traceback: OSError reading a selected file",
                              [flushed |-> <<>>, buf |-> wbuf])
           ELSE IF chunk = <<>>
           THEN /\ srcOpen' = FALSE
                /\ idx' = idx + 1
                /\ pc' = "file_next"
                /\ UNCHANGED <<selection, clipboard, disk, wbuf, created, outOpen, rpos, total,
                               exitCode, stderr, stdout, summary>>
           ELSE IF ~Fits(w)
           THEN FileSinkRaise("Traceback: OSError, storage exhausted", w)
           ELSE /\ disk' = Flushed(w)
                /\ wbuf' = w.buf
                /\ total' = total + CountLF(chunk)
                /\ rpos' = rpos + Len(chunk)
                /\ UNCHANGED <<selection, clipboard, pc, created, outOpen, srcOpen,
                               idx, exitCode, stderr, stdout, summary>>

\* lines 156 (end of the with-block), 166 and 189-194
FileReturn ==
    /\ pc = "file_next"
    /\ idx > Len(files)
    /\ LET w == BufClose(wbuf)
       IN  IF ~Fits(w)
           THEN FileSinkRaise("Traceback: OSError, storage exhausted", w)
           ELSE /\ disk' = Flushed(w)
                /\ wbuf' = w.buf
                /\ outOpen' = FALSE
                /\ summary' = <<Len(files), total>>
                /\ stderr' = "Wrote"
                /\ exitCode' = 0
                /\ pc' = "returned"
                /\ UNCHANGED <<selection, clipboard, created, srcOpen, idx, rpos, total,
                               stdout>>

----------------------------------------------------------------------------
(* write_to_clipboard *)

\* an exception leaves write_to_clipboard: only the source file's with-block
\* cleans up
ClipRaise(exc) ==
    /\ Raise(exc)
    /\ UNCHANGED <<selection, clipboard, disk, wbuf, created, idx, rpos, total, stdout, summary>>

\* open_clipboard_proc lines 115-119: the next command is tried
TryCommand ==
    /\ \/ pc = "selected" /\ ~Empty(files) /\ ~UseFileSink
       \/ pc = "spawn"
    /\ Len(tried) < Len(Commands)
    /\ \E outcome \in PopenOutcomes :
          /\ tried' = Append(tried, Len(tried) + 1)
          /\ IF outcome = "started"
             THEN /\ proc' = Len(tried) + 1
                  /\ stdinOpen' = TRUE
                  /\ idx' = 1
                  /\ total' = 0
                  /\ pc' = "clip_next"
                  /\ UNCHANGED <<srcOpen, outOpen, exitCode, stderr>>
             ELSE IF outcome = "FileNotFoundError"
             THEN /\ pc' = "spawn"
                  /\ UNCHANGED <<proc, stdinOpen, idx, total, srcOpen, outOpen,
                                 exitCode, stderr>>
             ELSE /\ Raise("Traceback: PermissionError")
                  /\ UNCHANGED <<proc, stdinOpen, idx, total>>
    /\ UNCHANGED <<selection, disk, wbuf, created, rpos, pipe, waited, stdout, summary>>

\* open_clipboard_proc lines 121-126
NoClipboardTool ==
    /\ pc = "spawn"
    /\ Len(tried) = Len(Commands)
    /\ stderr' = "Error: No clipboard tool found."
    /\ exitCode' = 1
    /\ pc' = "sysexit"
    /\ UNCHANGED <<selection, clipboard, disk, wbuf, created, outOpen, srcOpen, idx, rpos,
                   total, stdout, summary>>

\* lines 139-142
ClipHeader ==
    /\ pc = "clip_next"
    /\ idx <= Len(files)
    /\ pipe' = pipe \o Header(files[idx])
    /\ IF ~CanOpen(files[idx])
       THEN /\ Raise("Traceback: OSError opening a selected file")
            /\ UNCHANGED <<rpos>>
       ELSE /\ srcOpen' = TRUE
            /\ rpos' = 0
            /\ pc' = "clip_chunk"
            /\ UNCHANGED <<outOpen, exitCode, stderr>>
    /\ UNCHANGED <<selection, tried, proc, stdinOpen, waited, disk, wbuf, created, idx, total,
                   stdout, summary>>

\* lines 143-145
ClipChunk ==
    /\ pc = "clip_chunk"
    /\ LET p == files[idx]
           chunk == ReadChunk(p, rpos, ChunkSize)
       IN  IF ReadFails(p, rpos, ChunkSize)
           THEN ClipRaise("Traceback: OSError reading a selected file")
           ELSE IF chunk = <<>>
           THEN /\ srcOpen' = FALSE
                /\ idx' = idx + 1
                /\ pc' = "clip_next"
                /\ UNCHANGED <<selection, clipboard, disk, wbuf, created, outOpen, rpos, total,
                               exitCode, stderr, stdout, summary>>
           ELSE /\ pipe' = pipe \o chunk
                /\ total' = total + CountLF(chunk)
                /\ rpos' = rpos + Len(chunk)
                /\ UNCHANGED <<selection, tried, proc, stdinOpen, waited, disk, wbuf, created,
                               pc, outOpen, srcOpen, idx, exitCode, stderr, stdout,
                               summary>>

\* lines 147-149 and 197-202
ClipReturn ==
    /\ pc = "clip_next"
    /\ idx > Len(files)
    /\ stdinOpen' = FALSE
    /\ waited' = TRUE
    /\ summary' = <<Len(files), total>>
    /\ stderr' = "Copied"
    /\ exitCode' = 0
    /\ pc' = "returned"
    /\ UNCHANGED <<selection, tried, proc, pipe, disk, wbuf, created, outOpen, srcOpen, idx,
                   rpos, total, stdout>>

----------------------------------------------------------------------------

Next ==
    \/ ParseArgs
    \/ SelectSingle
    \/ WalkDir
    \/ NoFiles
    \/ OpenOutput
    \/ FileHeader
    \/ FileChunk
    \/ FileReturn
    \/ TryCommand
    \/ NoClipboardTool
    \/ ClipHeader
    \/ ClipChunk
    \/ ClipReturn

Spec == Init /\ [][Next]_vars

\* the program is one thread that runs until it exits
FairSpec == Spec /\ WF_vars(Next)

----------------------------------------------------------------------------
(* Properties *)

Terminal == pc \in {"returned", "sysexit", "crashed"}

\* a directory component of path, below its first k components, has an
\* excluded name
ExcludedBelow(path, k) == \E i \in (k + 1)..(Len(path) - 1) : path[i] \in EXCLUDE_DIRS

\* C1: in directory mode no selected path lies under a directory with an
\* excluded name, at any depth of the path, and no directory with an excluded
\* name is ever listed.
C1_NoExcludedAnywhere ==
    ~single =>
        /\ \A i \in 1..Len(files) : ~ExcludedBelow(files[i], 0)
        /\ \A d \in listed : d # <<>> => Last(d) \notin EXCLUDE_DIRS

\* C1 (amended): in directory mode no selected path has a directory component
\* with an excluded name below the target directory, and no directory with an
\* excluded name is listed except the target directory itself.
C1_NoExcludedBelowTarget ==
    ~single =>
        /\ \A i \in 1..Len(files) : ~ExcludedBelow(files[i], Len(target))
        /\ \A d \in listed : d # target => Last(d) \notin EXCLUDE_DIRS

\* the working directory was walked: p/.git lies two levels down and was
\* passed over, while files of p were selected
C1_Witness ==
    /\ pc = "selected"
    /\ ~single
    /\ target = <<>>
    /\ listed = {<<>>, <<N_p>>}
    /\ Len(files) >= 2

\* what the output file should hold: header and original bytes of each
\* selected file, in selection order
RECURSIVE Dump(_)
Dump(fs) ==
    IF fs = <<>> THEN <<>>
    ELSE Header(Head(fs)) \o InitDisk[Head(fs)] \o Dump(Tail(fs))

\* C2: when write_to_file has returned, the output file holds exactly, for
\* each selected file in selection order, its header followed by the bytes
\* the file held when the invocation started.
C2_RoundTrip == (pc = "returned" /\ created) => disk[OutPath] = Dump(files)

RECURSIVE SumLF(_)
SumLF(fs) ==
    IF fs = <<>> THEN 0
    ELSE CountLF(InitDisk[Head(fs)]) + SumLF(Tail(fs))

\* C3: the line count of the summary is the number of LF bytes in the
\* contents of the selected files, headers not counted, for either sink.
C3_NewlineCount ==
    summary # <<>> => summary[1] = Len(files) /\ summary[2] = SumLF(files)

\* the file has a NUL among its first SniffLen bytes
NulInPrefix(path) ==
    \E i \in 1..Min(SniffLen, Len(InitDisk[path])) : InitDisk[path][i] = NUL

OpenRefused(path) == fault.kind = "open" /\ fault.path = path

\* C4: the Selected File Set never holds a file with a NUL in its sniffed
\* prefix nor a file that cannot be opened; single-file mode on such a file
\* leaves the set empty and the run returns 1.
C4_NoBinarySelected ==
    /\ \A i \in 1..Len(files) :
          /\ files[i] \in DOMAIN InitDisk
          /\ ~NulInPrefix(files[i])
          /\ ~OpenRefused(files[i])
    /\ (single /\ pc # "single" /\ (NulInPrefix(target) \/ OpenRefused(target))) =>
          /\ files = <<>>
          /\ pc \in {"selected", "returned"}
          /\ pc = "returned" => exitCode = 1

\* single-file mode on p/b, which holds a NUL as its second byte
C4_Witness ==
    /\ pc = "returned"
    /\ single
    /\ target = P_b
    /\ files = <<>>
    /\ exitCode = 1

\* C5: with a non-empty selection exactly one sink effect happens, a helper
\* spawned and fed or the output file created, never both and never
\* neither; with an output path no helper is ever launched.  Stated of the
\* runs that no uncaught exception ends.
C5_ExactlyOneSink ==
    (pc \in {"returned", "sysexit"} /\ files # <<>>) =>
        /\ (created \/ (proc # 0 /\ pipe # <<>>))
        /\ ~(created /\ proc # 0)
        /\ output # <<>> => tried = <<>> /\ proc = 0

\* C5 (amended): never both; with an output path the only sink is the output
\* file and no helper is launched; without one the only sink is one helper,
\* spawned and fed; neither happens exactly when the chosen sink could not be
\* opened (no helper started, or the output path refused).
C5_AtMostOneSink ==
    (Terminal /\ files # <<>>) =>
        /\ ~(created /\ (proc # 0 \/ tried # <<>>))
        /\ output # <<>> => tried = <<>> /\ proc = 0 /\ pipe = <<>>
        /\ output = <<>> => ~created /\ disk = InitDisk
        /\ proc # 0 => pipe # <<>> /\ proc = Last(tried)
        /\ (~created /\ proc = 0) =>
              IF output = <<>>
              THEN pc \in {"sysexit", "crashed"} /\ tried # <<>> /\ pipe = <<>>
              ELSE /\ pc = "crashed"
                   /\ \/ output[1] \in Dirs
                      \/ Take(output[1], Len(output[1]) - 1) \notin Dirs

\* an output path was given and the file written: no helper was tried
C5_Witness ==
    /\ pc = "returned"
    /\ files # <<>>
    /\ output # <<>>
    /\ created
    /\ tried = <<>>

\* C6: with an empty selection _run prints "No matching files." and returns 1;
\* no helper is tried and the filesystem is as it was, the output path
\* neither created nor truncated.
C6_EmptySelectionTouchesNothing ==
    (files = <<>> /\ pc \in {"selected", "returned", "crashed"}) =>
        /\ pc # "crashed"
        /\ disk = InitDisk
        /\ ~created
        /\ tried = <<>> /\ proc = 0 /\ pipe = <<>>
        /\ pc = "returned" =>
              stderr = "No matching files." /\ exitCode = 1 /\ summary = <<>>

\* nothing was selected although an existing file was named as the output
C6_Witness ==
    /\ pc = "returned"
    /\ files = <<>>
    /\ output # <<>>
    /\ output[1] \in DOMAIN InitDisk
    /\ disk = InitDisk

\* an output flag with no value after it, reading the list from the left
RECURSIVE DanglingFlag(_)
DanglingFlag(args) ==
    IF args = <<>> THEN FALSE
    ELSE IF Head(args) \in {A_o, A_output}
         THEN Len(args) = 1 \/ DanglingFlag(Tail(Tail(args)))
    ELSE DanglingFlag(Tail(args))

\* the arguments left once the output flags and their values are removed
RECURSIVE Positional(_)
Positional(args) ==
    IF args = <<>> THEN <<>>
    ELSE IF Head(args) \in {A_o, A_output}
         THEN IF Len(args) = 1 THEN <<>> ELSE Positional(Tail(Tail(args)))
    ELSE <<Head(args)>> \o Positional(Tail(args))

ExistsAtStart(word) == ToPath(word) \in (DOMAIN InitDisk) \cup Dirs

PatternWithExtra(args) ==
    Len(Positional(args)) >= 2 /\ ~ExistsAtStart(Positional(args)[1])

NoSideEffect ==
    /\ listed = {}
    /\ files = <<>>
    /\ disk = InitDisk
    /\ ~created
    /\ tried = <<>> /\ proc = 0 /\ pipe = <<>>

\* C7: parse_args ends the run with code 2 and a message, before any side
\* effect, in exactly two cases: an output flag without a value, or a first
\* remaining argument that is neither file nor directory, followed by more.
C7_UsageErrors ==
    pc # "start" =>
        /\ exitCode = 2 <=> (DanglingFlag(argv) \/ PatternWithExtra(argv))
        /\ exitCode = 2 => pc = "sysexit" /\ stderr # "" /\ stdout = "" /\ NoSideEffect

\* C7 (amended): as C7, the second case holding only when the first remaining
\* argument is not a help token (-h, --help, help), which prints the usage
\* and exits 0 whatever follows it.
C7_UsageErrorsButHelp ==
    pc # "start" =>
        /\ exitCode = 2 <=>
              \/ DanglingFlag(argv)
              \/ /\ PatternWithExtra(argv)
                 /\ Positional(argv)[1] \notin {A_h, A_help, A_helpword}
        /\ exitCode = 2 => pc = "sysexit" /\ stderr # "" /\ stdout = "" /\ NoSideEffect

\* a pattern followed by a second argument, every output flag with its value
C7_Witness ==
    /\ pc = "sysexit"
    /\ exitCode = 2
    /\ ~DanglingFlag(argv)
    /\ PatternWithExtra(argv)
    /\ stderr = "Error: when the first argument is a pattern, do not pass a second argument."

\* C8: when _run has returned or an error has left it, no file handle is
\* open, and a spawned helper has had its stdin closed and been waited for.
C8_AllReleased ==
    Terminal =>
        /\ ~srcOpen
        /\ ~outOpen
        /\ proc # 0 => ~stdinOpen /\ waited

\* C9: the commands are tried in their fixed order and the first that can be
\* launched is the one spawned; when none is spawned the run ends with the
\* "No clipboard tool found" error and code 1, nothing written to any sink.
C9_FirstHelperOrNoToolError ==
    /\ \A i \in 1..Len(tried) : tried[i] = i
    /\ proc # 0 => proc = Last(tried)
    /\ (Terminal /\ files # <<>> /\ output = <<>> /\ proc = 0) =>
          /\ pc = "sysexit"
          /\ stderr = "Error: No clipboard tool found."
          /\ exitCode = 1
          /\ Len(tried) = Len(Commands)
          /\ pipe = <<>> /\ disk = InitDisk

\* C10: write_to_file over files that can all be read returns, whatever the
\* output path is, one of the selected files included: each file's read loop
\* ends with a read that returns no bytes.  (The run that refutes it ends in
\* the OSError of out.write on exhausted storage, as the program does.)
C10_WriteToFileReturns == (outOpen /\ fault = NoFault) ~> (pc = "returned")

====
